---- MODULE Spec2Model ----
(***************************************************************************)
(* Model of tasks/task_10/solution.go: the in-memory task store (InMemory: *)
(* Create, Get, List, SetDone under one sync.RWMutex) and the GET /tasks   *)
(* handler that sorts the listing.  Every goroutine is a process whose pc  *)
(* walks through the statements of the method it is executing.             *)
(***************************************************************************)
EXTENDS Integers, Sequences, FiniteSets, TLC

(* ---------------- bounds ---------------- *)
MaxID == 2             \* Create calls per store in Spec
MaxTime == 2           \* clock readings are 1..MaxTime
MaxSetDone == 2        \* SetDone calls per behaviour in Spec
MaxPerm == 3           \* maps up to this size are ranged over in every order
ListMaxID == 10        \* Create calls per store in SpecList
ListMaxSetDone == 1    \* SetDone calls per behaviour in SpecList
LiveMaxID == 1         \* Create calls per store in SpecLive
LiveMaxSetDone == 2    \* SetDone calls per behaviour in SpecLive

Procs == 1 .. 2        \* the concurrent callers (goroutines)
NoProc == 0
Times == 1 .. MaxTime
Titles == {<<"a">>, <<"b">>}
ListTitles == {<<"a">>}

(* ---------------- strings: sequences of characters ---------------- *)
Digit == <<"0", "1", "2", "3", "4", "5", "6", "7", "8", "9">>

DigitVal(c) == CHOOSE d \in 0 .. 9 : Digit[d + 1] = c

IsDigit(c) == \E d \in 0 .. 9 : Digit[d + 1] = c

\* a conversion that keeps only the last decimal digit
ItoaLastDigit(n) == <<Digit[(n % 10) + 1]>>

\* strconv.Itoa for the non-negative values the counter takes
RECURSIVE Itoa(_)
Itoa(n) == IF n < 10 THEN <<Digit[n + 1]>>
           ELSE Itoa(n \div 10) \o <<Digit[(n % 10) + 1]>>

RECURSIVE DigitsVal(_)
DigitsVal(s) == IF s = <<>> THEN 0
                ELSE 10 * DigitsVal(SubSeq(s, 1, Len(s) - 1)) + DigitVal(s[Len(s)])

\* strconv.Atoi on unsigned input: a value, or an error for an empty string
\* or a string holding a character that is not a digit
Atoi(s) == IF s # <<>> /\ \A i \in 1 .. Len(s) : IsDigit(s[i])
           THEN [n |-> DigitsVal(s), err |-> FALSE]
           ELSE [n |-> 0, err |-> TRUE]

(* ---------------- tasks and the map ---------------- *)
ZeroTask == [ID |-> <<>>, Title |-> <<>>, Done |-> FALSE, UpdatedAt |-> 0]

\* a Create that constructs its task already completed
NewTaskDone(i, title, t) == [ID |-> i, Title |-> title, Done |-> TRUE, UpdatedAt |-> t]

NewTask(i, title, t) == [ID |-> i, Title |-> title, Done |-> FALSE, UpdatedAt |-> t]

\* a SetDone that stamps the time and forgets the flag
StampNoDone(tk, done, t) == [tk EXCEPT !.UpdatedAt = t]

\* a SetDone that sets the flag and forgets the time stamp
StampNoTime(tk, done, t) == [tk EXCEPT !.Done = done]

\* a SetDone that builds a new Task holding only the flag and the time
StampFresh(tk, done, t) == [ZeroTask EXCEPT !.Done = done, !.UpdatedAt = t]

Stamp(tk, done, t) == [tk EXCEPT !.Done = done, !.UpdatedAt = t]

\* a Create that forgets m.currID++
IncIDNone(c) == c

\* a counter of one bit, wrapping around
IncIDWrap(c) == (c + 1) % 2

IncID(c) == c + 1

EmptyMap == [k \in {} |-> ZeroTask]

\* a lookup whose ok is not looked at
LookupAlways(d, k) == [task |-> IF k \in DOMAIN d THEN d[k] ELSE ZeroTask, ok |-> TRUE]

\* task, ok := m.data[id]
Lookup(d, k) == IF k \in DOMAIN d THEN [task |-> d[k], ok |-> TRUE]
                ELSE [task |-> ZeroTask, ok |-> FALSE]

\* a store whose assignment to the map is missing
PutNone(d, k, tk) == d

\* m.data[id] = task
Put(d, k, tk) == [x \in DOMAIN d \cup {k} |-> IF x = k THEN tk ELSE d[x]]

(* ---------------- sync.RWMutex ---------------- *)
CanLock(m) == m.w = NoProc /\ m.r = {}

\* an RLock that does not wait for the writer
CanRLockFree(m) == TRUE

CanRLock(m) == m.w = NoProc

(* ---------------- List: ranging over the map ---------------- *)
RECURSIVE SeqOf(_)
SeqOf(S) == IF S = {} THEN <<>>
            ELSE LET x == CHOOSE y \in S : TRUE IN <<x>> \o SeqOf(S \ {x})

Reverse(s) == [i \in 1 .. Len(s) |-> s[Len(s) + 1 - i]]

Rotate(s, r) == [i \in 1 .. Len(s) |-> s[((i + r - 1) % Len(s)) + 1]]

\* The orders in which "for _, task := range m.data" may visit the keys.  Go
\* leaves the order unspecified: every order for a map of at most MaxPerm
\* keys; for a larger map the rotations of one order and of its reverse.
IterOrders(keys) ==
    LET n == Cardinality(keys) IN
    IF n <= MaxPerm
    THEN {f \in [1 .. n -> keys] : \A i, j \in 1 .. n : i # j => f[i] # f[j]}
    ELSE LET base == SeqOf(keys) IN
         {Rotate(base, r) : r \in 0 .. n - 1}
             \cup {Rotate(Reverse(base), r) : r \in 0 .. n - 1}

\* make([]Task, len(m.data)) in place of make([]Task, 0, len(m.data)): the
\* appended tasks follow len(m.data) zero tasks
CopyTasksPrefilled(d, order) ==
    [i \in 1 .. 2 * Len(order) |->
        IF i <= Len(order) THEN ZeroTask ELSE d[order[i - Len(order)]]]

\* list = append(list, task) for every visited key
CopyTasks(d, order) == [i \in 1 .. Len(order) |-> d[order[i]]]

(* ---------------- GetTasks: the comparator and the sort ---------------- *)
\* s < t as strings (byte-wise)
RECURSIVE LexLess(_, _)
LexLess(s, t) ==
    IF t = <<>> THEN FALSE
    ELSE IF s = <<>> THEN TRUE
    ELSE IF s[1] # t[1] THEN DigitVal(s[1]) < DigitVal(t[1])
    ELSE LexLess(Tail(s), Tail(t))

\* a comparator that does not break ties
cmpNoTie(a, b) ==
    IF a.UpdatedAt = b.UpdatedAt THEN [panic |-> FALSE, c |-> 0]
    ELSE IF a.UpdatedAt > b.UpdatedAt THEN [panic |-> FALSE, c |-> -1]
    ELSE [panic |-> FALSE, c |-> 1]

\* a comparator that breaks ties by comparing the ids as strings
cmpLex(a, b) ==
    IF a.UpdatedAt = b.UpdatedAt
    THEN IF LexLess(a.ID, b.ID) THEN [panic |-> FALSE, c |-> -1]
         ELSE IF LexLess(b.ID, a.ID) THEN [panic |-> FALSE, c |-> 1]
         ELSE [panic |-> FALSE, c |-> 0]
    ELSE IF a.UpdatedAt > b.UpdatedAt THEN [panic |-> FALSE, c |-> -1]
    ELSE [panic |-> FALSE, c |-> 1]

\* the function literal handed to slices.SortFunc; panic is the panic(err)
\* branch taken when an id does not parse
cmp(a, b) ==
    IF a.UpdatedAt = b.UpdatedAt
    THEN LET aId == Atoi(a.ID)
             bId == Atoi(b.ID)
         IN IF aId.err \/ bId.err THEN [panic |-> TRUE, c |-> 0]
            ELSE IF aId.n < bId.n THEN [panic |-> FALSE, c |-> -1]
            ELSE IF bId.n < aId.n THEN [panic |-> FALSE, c |-> 1]
            ELSE [panic |-> FALSE, c |-> 0]
    ELSE IF a.UpdatedAt > b.UpdatedAt THEN [panic |-> FALSE, c |-> -1]
    ELSE [panic |-> FALSE, c |-> 1]

\* one pass of the insertion sort slices.SortFunc runs on a slice of at most
\* 12 elements: x moves left while cmp(x, left neighbour) < 0
RECURSIVE InsertLeft(_, _)
InsertLeft(s, x) ==
    IF s = <<>> THEN [panic |-> FALSE, out |-> <<x>>]
    ELSE LET c == cmp(x, s[Len(s)]) IN
         IF c.panic THEN [panic |-> TRUE, out |-> s \o <<x>>]
         ELSE IF c.c < 0
         THEN LET r == InsertLeft(SubSeq(s, 1, Len(s) - 1), x)
              IN [panic |-> r.panic, out |-> r.out \o <<s[Len(s)]>>]
         ELSE [panic |-> FALSE, out |-> s \o <<x>>]

RECURSIVE SortFunc(_)
SortFunc(s) ==
    IF s = <<>> THEN [panic |-> FALSE, out |-> <<>>]
    ELSE LET r == SortFunc(SubSeq(s, 1, Len(s) - 1)) IN
         IF r.panic THEN [panic |-> TRUE, out |-> r.out \o <<s[Len(s)]>>]
         ELSE InsertLeft(r.out, s[Len(s)])

(* ---------------- JSON and HTTP ---------------- *)
StatusOK == 200
StatusCreated == 201
StatusBadRequest == 400
StatusNotFoundAsBadRequest == StatusBadRequest

StatusNotFound == 404

\* JSON values; a member a body does not have is JAbsent
JAbsent == [kind |-> "absent", s |-> <<>>, b |-> FALSE]
JNull == [kind |-> "null", s |-> <<>>, b |-> FALSE]
JNumber == [kind |-> "number", s |-> <<>>, b |-> FALSE]
JString(str) == [kind |-> "string", s |-> str, b |-> FALSE]
JBool(v) == [kind |-> "bool", s |-> <<>>, b |-> v]

\* the member names a request body is built from, and the json tags of RequestTask
BodyKeys == {"title", "done", "id", "foo"}
KnownFields == {"id", "title", "done", "updatedAt"}

TitleStrings == {<<>>, <<" ">>, <<"a">>, <<" ", "a", " ">>, <<"a", " ", "b">>}

\* request bodies: text that is no JSON value, or an object with some of the members
Bodies ==
    {[wf |-> FALSE, title |-> JAbsent, done |-> JAbsent, id |-> JAbsent, foo |-> JAbsent]}
    \cup {[wf |-> TRUE, title |-> t, done |-> d, id |-> i, foo |-> f] :
            t \in {JAbsent, JNull, JNumber} \cup {JString(x) : x \in TitleStrings},
            d \in {JAbsent, JNull, JBool(TRUE), JBool(FALSE), JString(<<"a">>)},
            i \in {JAbsent, JString(<<"7">>)},
            f \in {JAbsent, JNumber}}

Members(body) == {k \in BodyKeys : body[k].kind # "absent"}

\* dec.DisallowUnknownFields(); dec.Decode(&t): an error for text that is no
\* JSON, for a member RequestTask has no field for and for a value of the
\* wrong type; null leaves a field as it is; Done is a *bool
Decode(body) ==
    [err |-> \/ ~body.wf
             \/ \E k \in Members(body) : k \notin KnownFields
             \/ body.title.kind \notin {"absent", "null", "string"}
             \/ body.id.kind \notin {"absent", "null", "string"}
             \/ body.done.kind \notin {"absent", "null", "bool"},
     Title |-> IF body.title.kind = "string" THEN body.title.s ELSE <<>>,
     ID |-> IF body.id.kind = "string" THEN body.id.s ELSE <<>>,
     DoneNil |-> body.done.kind # "bool",
     Done |-> body.done.kind = "bool" /\ body.done.b]

\* strings.TrimSpace
RECURSIVE TrimLeft(_)
TrimLeft(str) == IF str # <<>> /\ str[1] = " " THEN TrimLeft(Tail(str)) ELSE str

RECURSIVE TrimRight(_)
TrimRight(str) == IF str # <<>> /\ str[Len(str)] = " "
                  THEN TrimRight(SubSeq(str, 1, Len(str) - 1)) ELSE str

TrimSpaceLeading(str) == TrimLeft(str)

TrimSpace(str) == TrimRight(TrimLeft(str))

\* enc.Encode(task): Task has no json tags, so encoding/json names every
\* member after the struct field
EncodeTask(t) == [ID |-> t.ID, Title |-> t.Title, Done |-> t.Done, UpdatedAt |-> t.UpdatedAt]

(* ---------------- state ---------------- *)
VARIABLES
    data,      \* InMemory.data: id -> Task
    currID,    \* InMemory.currID
    mu,        \* InMemory.mu: w is the goroutine holding Lock, r those holding RLock
    now,       \* the last value the Clock returned (0: not read yet)
    mono,      \* every reading of the Clock so far was >= the reading before it
    strict,    \* every reading of the Clock so far was > the reading before it
    pc,        \* the statement each goroutine is at
    args,      \* the arguments of the call each goroutine is executing
    id,        \* Create's local id
    task,      \* the local task of Create, Get and SetDone (the value returned)
    ok,        \* the local ok of Get and SetDone
    err,       \* the error SetDone returns
    list,      \* List's local list, then GetTasks' tasks
    resp,      \* what GetTasks wrote to the ResponseWriter
    queried,   \* the call in progress has called clock.Now()
    snap,      \* data and currID when the call in progress took the lock
    returned,  \* the ids Create has returned so far
    before,    \* the ids Create had returned when the call in progress incremented currID
    fresh,     \* the task the goroutine's Create stored, until a SetDone replaces it or
               \* the goroutine's next call other than Get of that id is over
    setCount,  \* SetDone calls made so far
    req        \* the request the handler in progress is serving, and the store when it came

vars == <<data, currID, mu, now, mono, strict, pc, args, id, task, ok, err,
          list, resp, queried, snap, returned, before, fresh, setCount, req>>

NoArgs == [op |-> "none", id |-> <<>>, title |-> <<>>, done |-> FALSE]
NoResp == [status |-> 0, body |-> <<>>]
NoSnap == [data |-> EmptyMap, currID |-> 0]
NoBody == [wf |-> FALSE, title |-> JAbsent, done |-> JAbsent, id |-> JAbsent, foo |-> JAbsent]
NoReq == [handler |-> "none", id |-> <<>>, body |-> NoBody, data |-> EmptyMap, currID |-> 0]

\* ids a caller may pass to Get and SetDone
IdArgs(maxId) == {Itoa(i) : i \in 1 .. maxId}

\* NewInMemoryTaskRepo, and every goroutine outside a call
Init ==
    /\ data = EmptyMap
    /\ currID = 0
    /\ mu = [w |-> NoProc, r |-> {}]
    /\ now = 0
    /\ mono = TRUE
    /\ strict = TRUE
    /\ pc = [p \in Procs |-> "idle"]
    /\ args = [p \in Procs |-> NoArgs]
    /\ id = [p \in Procs |-> <<>>]
    /\ task = [p \in Procs |-> ZeroTask]
    /\ ok = [p \in Procs |-> FALSE]
    /\ err = [p \in Procs |-> "nil"]
    /\ list = [p \in Procs |-> <<>>]
    /\ resp = [p \in Procs |-> NoResp]
    /\ queried = [p \in Procs |-> FALSE]
    /\ snap = [p \in Procs |-> NoSnap]
    /\ returned = {}
    /\ before = [p \in Procs |-> {}]
    /\ fresh = [p \in Procs |-> ZeroTask]
    /\ setCount = 0
    /\ req = [p \in Procs |-> NoReq]

\* the call of p is over: its locals are gone
Forget(p) ==
    /\ pc' = [pc EXCEPT ![p] = "idle"]
    /\ args' = [args EXCEPT ![p] = NoArgs]
    /\ id' = [id EXCEPT ![p] = <<>>]
    /\ task' = [task EXCEPT ![p] = ZeroTask]
    /\ ok' = [ok EXCEPT ![p] = FALSE]
    /\ err' = [err EXCEPT ![p] = "nil"]
    /\ list' = [list EXCEPT ![p] = <<>>]
    /\ resp' = [resp EXCEPT ![p] = NoResp]
    /\ queried' = [queried EXCEPT ![p] = FALSE]
    /\ snap' = [snap EXCEPT ![p] = NoSnap]
    /\ before' = [before EXCEPT ![p] = {}]
    /\ req' = [req EXCEPT ![p] = NoReq]

\* the values the next m.clock.Now() may return: anything from a clock that is
\* free to jump back, nothing below the last reading from a well-behaved one
ClockValues(clk) == IF clk = "any" THEN Times ELSE {t \in Times : t >= now}

\* m.clock.Now() returning t
ReadClock(p, t) ==
    /\ now' = t
    /\ mono' = (mono /\ t >= now)
    /\ strict' = (strict /\ t > now)
    /\ queried' = [queried EXCEPT ![p] = TRUE]

(* ---------------- Create ---------------- *)
\* creates that have not incremented currID yet
PendingCreates == Cardinality({q \in Procs : pc[q] = "CreateLock" \/ pc[q] = "CreateInc"})

CallCreate(p, title, maxId) ==
    /\ pc[p] = "idle"
    /\ currID + PendingCreates < maxId
    /\ pc' = [pc EXCEPT ![p] = "CreateLock"]
    /\ args' = [args EXCEPT ![p] = [op |-> "Create", id |-> <<>>, title |-> title, done |-> FALSE]]
    /\ fresh' = [fresh EXCEPT ![p] = ZeroTask]
    /\ UNCHANGED <<data, currID, mu, now, mono, strict, id, task, ok, err, list, resp,
                   queried, snap, returned, before, setCount, req>>

\* m.mu.Lock()
CreateLock(p) ==
    /\ pc[p] = "CreateLock"
    /\ CanLock(mu)
    /\ mu' = [mu EXCEPT !.w = p]
    /\ snap' = [snap EXCEPT ![p] = [data |-> data, currID |-> currID]]
    /\ pc' = [pc EXCEPT ![p] = "CreateInc"]
    /\ UNCHANGED <<data, currID, now, mono, strict, args, id, task, ok, err, list, resp,
                   queried, returned, before, fresh, setCount, req>>

\* m.currID++; id := strconv.Itoa(m.currID)
CreateInc(p) ==
    /\ pc[p] = "CreateInc"
    /\ currID' = IncID(currID)
    /\ id' = [id EXCEPT ![p] = Itoa(currID')]
    /\ before' = [before EXCEPT ![p] = returned]
    /\ pc' = [pc EXCEPT ![p] = "CreateNow"]
    /\ UNCHANGED <<data, mu, now, mono, strict, args, task, ok, err, list, resp,
                   queried, snap, returned, fresh, setCount, req>>

\* task := Task{ID: id, Title: title, Done: false, UpdatedAt: m.clock.Now()}
CreateNow(p, clk) ==
    /\ pc[p] = "CreateNow"
    /\ \E t \in ClockValues(clk) :
          /\ ReadClock(p, t)
          /\ task' = [task EXCEPT ![p] = NewTask(id[p], args[p].title, t)]
    /\ pc' = [pc EXCEPT ![p] = "CreatePut"]
    /\ UNCHANGED <<data, currID, mu, args, id, ok, err, list, resp,
                   snap, returned, before, fresh, setCount, req>>

\* m.data[id] = task
CreatePut(p) ==
    /\ pc[p] = "CreatePut"
    /\ data' = Put(data, id[p], task[p])
    /\ fresh' = [fresh EXCEPT ![p] = task[p]]
    /\ pc' = [pc EXCEPT ![p] = "CreateUnlock"]
    /\ UNCHANGED <<currID, mu, now, mono, strict, args, id, task, ok, err, list, resp,
                   queried, snap, returned, before, setCount, req>>

\* the deferred m.mu.Unlock()
CreateUnlock(p) ==
    /\ pc[p] = "CreateUnlock"
    /\ mu' = [mu EXCEPT !.w = NoProc]
    /\ pc' = [pc EXCEPT ![p] = "CreateRet"]
    /\ UNCHANGED <<data, currID, now, mono, strict, args, id, task, ok, err, list, resp,
                   queried, snap, returned, before, fresh, setCount, req>>

\* return task, nil
CreateRet(p) ==
    /\ pc[p] = "CreateRet"
    /\ returned' = returned \cup {task[p].ID}
    /\ IF args[p].op = "CreateTask"
       THEN /\ pc' = [pc EXCEPT ![p] = "CreateTaskEncode"]
            /\ UNCHANGED <<args, id, task, ok, err, list, resp, queried, snap, before, req>>
       ELSE Forget(p)
    /\ UNCHANGED <<data, currID, mu, now, mono, strict, fresh, setCount>>

(* ---------------- Get ---------------- *)
CallGet(p, k) ==
    /\ pc[p] = "idle"
    /\ pc' = [pc EXCEPT ![p] = "GetRLock"]
    /\ args' = [args EXCEPT ![p] = [op |-> "Get", id |-> k, title |-> <<>>, done |-> FALSE]]
    /\ fresh' = [fresh EXCEPT ![p] = IF fresh[p].ID = k THEN fresh[p] ELSE ZeroTask]
    /\ UNCHANGED <<data, currID, mu, now, mono, strict, id, task, ok, err, list, resp,
                   queried, snap, returned, before, setCount, req>>

\* m.mu.RLock()
GetRLock(p) ==
    /\ pc[p] = "GetRLock"
    /\ CanRLock(mu)
    /\ mu' = [mu EXCEPT !.r = @ \cup {p}]
    /\ pc' = [pc EXCEPT ![p] = "GetRead"]
    /\ UNCHANGED <<data, currID, now, mono, strict, args, id, task, ok, err, list, resp,
                   queried, snap, returned, before, fresh, setCount, req>>

\* a Get that stamps the task it finds with the last clock reading
GetReadTouch(p) ==
    /\ pc[p] = "GetRead"
    /\ LET r == Lookup(data, args[p].id) IN
          /\ task' = [task EXCEPT ![p] = r.task]
          /\ ok' = [ok EXCEPT ![p] = r.ok]
          /\ data' = IF r.ok THEN Put(data, args[p].id, [r.task EXCEPT !.UpdatedAt = now])
                     ELSE data
    /\ pc' = [pc EXCEPT ![p] = "GetRUnlock"]
    /\ UNCHANGED <<currID, mu, now, mono, strict, args, id, err, list, resp,
                   queried, snap, returned, before, fresh, setCount, req>>

\* task, ok := m.data[id]
GetRead(p) ==
    /\ pc[p] = "GetRead"
    /\ LET r == Lookup(data, args[p].id) IN
          /\ task' = [task EXCEPT ![p] = r.task]
          /\ ok' = [ok EXCEPT ![p] = r.ok]
    /\ pc' = [pc EXCEPT ![p] = "GetRUnlock"]
    /\ UNCHANGED <<data, currID, mu, now, mono, strict, args, id, err, list, resp,
                   queried, snap, returned, before, fresh, setCount, req>>

\* the deferred m.mu.RUnlock()
GetRUnlock(p) ==
    /\ pc[p] = "GetRUnlock"
    /\ mu' = [mu EXCEPT !.r = @ \ {p}]
    /\ pc' = [pc EXCEPT ![p] = "GetRet"]
    /\ UNCHANGED <<data, currID, now, mono, strict, args, id, task, ok, err, list, resp,
                   queried, snap, returned, before, fresh, setCount, req>>

\* return task, ok
GetRet(p) ==
    /\ pc[p] = "GetRet"
    /\ IF args[p].op = "GetTask"
       THEN /\ pc' = [pc EXCEPT ![p] = "GetTaskRespond"]
            /\ UNCHANGED <<args, id, task, ok, err, list, resp, queried, snap, before, req>>
       ELSE Forget(p)
    /\ fresh' = [fresh EXCEPT ![p] = ZeroTask]
    /\ UNCHANGED <<data, currID, mu, now, mono, strict, returned, setCount>>

(* ---------------- SetDone ---------------- *)
CallSetDone(p, k, d, maxSet) ==
    /\ pc[p] = "idle"
    /\ setCount < maxSet
    /\ setCount' = setCount + 1
    /\ pc' = [pc EXCEPT ![p] = "SetDoneLock"]
    /\ args' = [args EXCEPT ![p] = [op |-> "SetDone", id |-> k, title |-> <<>>, done |-> d]]
    /\ fresh' = [fresh EXCEPT ![p] = ZeroTask]
    /\ UNCHANGED <<data, currID, mu, now, mono, strict, id, task, ok, err, list, resp,
                   queried, snap, returned, before, req>>

\* m.mu.Lock()
SetDoneLock(p) ==
    /\ pc[p] = "SetDoneLock"
    /\ CanLock(mu)
    /\ mu' = [mu EXCEPT !.w = p]
    /\ snap' = [snap EXCEPT ![p] = [data |-> data, currID |-> currID]]
    /\ pc' = [pc EXCEPT ![p] = "SetDoneGet"]
    /\ UNCHANGED <<data, currID, now, mono, strict, args, id, task, ok, err, list, resp,
                   queried, returned, before, fresh, setCount, req>>

\* task, ok := m.data[id]; if !ok { return task, ErrNotFound }
SetDoneGet(p) ==
    /\ pc[p] = "SetDoneGet"
    /\ LET r == Lookup(data, args[p].id) IN
          /\ task' = [task EXCEPT ![p] = r.task]
          /\ ok' = [ok EXCEPT ![p] = r.ok]
          /\ err' = [err EXCEPT ![p] = IF r.ok THEN "nil" ELSE "ErrNotFound"]
          /\ pc' = [pc EXCEPT ![p] = IF r.ok THEN "SetDoneNow" ELSE "SetDoneUnlock"]
    /\ UNCHANGED <<data, currID, mu, now, mono, strict, args, id, list, resp,
                   queried, snap, returned, before, fresh, setCount, req>>

\* task.Done = done; task.UpdatedAt = m.clock.Now()
SetDoneNow(p, clk) ==
    /\ pc[p] = "SetDoneNow"
    /\ \E t \in ClockValues(clk) :
          /\ ReadClock(p, t)
          /\ task' = [task EXCEPT ![p] = Stamp(task[p], args[p].done, t)]
    /\ pc' = [pc EXCEPT ![p] = "SetDonePut"]
    /\ UNCHANGED <<data, currID, mu, args, id, ok, err, list, resp,
                   snap, returned, before, fresh, setCount, req>>

\* m.data[id] = task
SetDonePut(p) ==
    /\ pc[p] = "SetDonePut"
    /\ data' = Put(data, args[p].id, task[p])
    /\ fresh' = [q \in Procs |-> IF fresh[q].ID = args[p].id THEN ZeroTask ELSE fresh[q]]
    /\ pc' = [pc EXCEPT ![p] = "SetDoneUnlock"]
    /\ UNCHANGED <<currID, mu, now, mono, strict, args, id, task, ok, err, list, resp,
                   queried, snap, returned, before, setCount, req>>

\* a SetDone whose NotFound return does not release the lock
SetDoneUnlockLeak(p) ==
    /\ pc[p] = "SetDoneUnlock"
    /\ mu' = IF err[p] = "nil" THEN [mu EXCEPT !.w = NoProc] ELSE mu
    /\ pc' = [pc EXCEPT ![p] = "SetDoneRet"]
    /\ UNCHANGED <<data, currID, now, mono, strict, args, id, task, ok, err, list, resp,
                   queried, snap, returned, before, fresh, setCount, req>>

\* the deferred m.mu.Unlock()
SetDoneUnlock(p) ==
    /\ pc[p] = "SetDoneUnlock"
    /\ mu' = [mu EXCEPT !.w = NoProc]
    /\ pc' = [pc EXCEPT ![p] = "SetDoneRet"]
    /\ UNCHANGED <<data, currID, now, mono, strict, args, id, task, ok, err, list, resp,
                   queried, snap, returned, before, fresh, setCount, req>>

\* return task, ErrNotFound / return task, nil
SetDoneRet(p) ==
    /\ pc[p] = "SetDoneRet"
    /\ IF args[p].op = "EditTasks"
       THEN /\ pc' = [pc EXCEPT ![p] = "EditTasksRespond"]
            /\ UNCHANGED <<args, id, task, ok, err, list, resp, queried, snap, before, req>>
       ELSE Forget(p)
    /\ UNCHANGED <<data, currID, mu, now, mono, strict, returned, fresh, setCount>>

(* ---------------- GetTasks and List ---------------- *)
\* tasks := h.repo.List()
CallGetTasks(p) ==
    /\ pc[p] = "idle"
    /\ pc' = [pc EXCEPT ![p] = "ListRLock"]
    /\ args' = [args EXCEPT ![p] = [op |-> "GetTasks", id |-> <<>>, title |-> <<>>, done |-> FALSE]]
    /\ fresh' = [fresh EXCEPT ![p] = ZeroTask]
    /\ UNCHANGED <<data, currID, mu, now, mono, strict, id, task, ok, err, list, resp,
                   queried, snap, returned, before, setCount, req>>

\* m.mu.RLock()
ListRLock(p) ==
    /\ pc[p] = "ListRLock"
    /\ CanRLock(mu)
    /\ mu' = [mu EXCEPT !.r = @ \cup {p}]
    /\ pc' = [pc EXCEPT ![p] = "ListCopy"]
    /\ UNCHANGED <<data, currID, now, mono, strict, args, id, task, ok, err, list, resp,
                   queried, snap, returned, before, fresh, setCount, req>>

\* list := make([]Task, 0, len(m.data)); for _, task := range m.data { append }
ListCopy(p) ==
    /\ pc[p] = "ListCopy"
    /\ \E order \in IterOrders(DOMAIN data) :
          list' = [list EXCEPT ![p] = CopyTasks(data, order)]
    /\ snap' = [snap EXCEPT ![p] = [data |-> data, currID |-> currID]]
    /\ pc' = [pc EXCEPT ![p] = "ListRUnlock"]
    /\ UNCHANGED <<data, currID, mu, now, mono, strict, args, id, task, ok, err, resp,
                   queried, returned, before, fresh, setCount, req>>

\* the deferred m.mu.RUnlock()
ListRUnlock(p) ==
    /\ pc[p] = "ListRUnlock"
    /\ mu' = [mu EXCEPT !.r = @ \ {p}]
    /\ pc' = [pc EXCEPT ![p] = "ListRet"]
    /\ UNCHANGED <<data, currID, now, mono, strict, args, id, task, ok, err, list, resp,
                   queried, snap, returned, before, fresh, setCount, req>>

\* return list: the handler has its tasks
ListRet(p) ==
    /\ pc[p] = "ListRet"
    /\ pc' = [pc EXCEPT ![p] = "GetTasksSort"]
    /\ UNCHANGED <<data, currID, mu, now, mono, strict, args, id, task, ok, err, list, resp,
                   queried, snap, returned, before, fresh, setCount, req>>

\* slices.SortFunc(tasks, cmp), in place; a panic of the comparator ends the
\* handler without a response
GetTasksSort(p) ==
    /\ pc[p] = "GetTasksSort"
    /\ LET r == SortFunc(list[p]) IN
          /\ list' = [list EXCEPT ![p] = r.out]
          /\ pc' = [pc EXCEPT ![p] = IF r.panic THEN "GetTasksRet" ELSE "GetTasksEncode"]
    /\ UNCHANGED <<data, currID, mu, now, mono, strict, args, id, task, ok, err, resp,
                   queried, snap, returned, before, fresh, setCount, req>>

\* w.WriteHeader(http.StatusOK); enc.Encode(tasks)
GetTasksEncode(p) ==
    /\ pc[p] = "GetTasksEncode"
    /\ resp' = [resp EXCEPT ![p] = [status |-> StatusOK, body |-> [i \in 1 .. Len(list[p]) |-> EncodeTask(list[p][i])]]]
    /\ pc' = [pc EXCEPT ![p] = "GetTasksRet"]
    /\ UNCHANGED <<data, currID, mu, now, mono, strict, args, id, task, ok, err, list,
                   queried, snap, returned, before, fresh, setCount, req>>

\* the handler returns
GetTasksRet(p) ==
    /\ pc[p] = "GetTasksRet"
    /\ Forget(p)
    /\ UNCHANGED <<data, currID, mu, now, mono, strict, returned, fresh, setCount>>

(* ---------------- CreateTask, GetTask, EditTasks ---------------- *)
\* path values a request may carry
PathIds(maxId) == IdArgs(maxId) \cup {<<>>, <<"0", "1">>}

\* http.Error(w, msg, status); return
Reject(p, status, msg) ==
    /\ resp' = [resp EXCEPT ![p] = [status |-> status, body |-> msg]]
    /\ pc' = [pc EXCEPT ![p] = "HandlerRet"]
    /\ UNCHANGED <<args, setCount>>

\* CreateTask up to the call of h.repo.Create(title)
CreateTaskDecode(p, body, maxId) ==
    /\ pc[p] = "idle"
    /\ req' = [req EXCEPT ![p] = [handler |-> "CreateTask", id |-> <<>>, body |-> body,
                                  data |-> data, currID |-> currID]]
    /\ fresh' = [fresh EXCEPT ![p] = ZeroTask]
    /\ LET r == Decode(body)
           title == TrimSpace(r.Title)
       IN IF r.err THEN Reject(p, StatusBadRequest, "Invalid JSON")
          ELSE IF title = <<>> THEN Reject(p, StatusBadRequest, "Empty title")
          ELSE /\ currID + PendingCreates < maxId
               /\ pc' = [pc EXCEPT ![p] = "CreateLock"]
               /\ args' = [args EXCEPT ![p] = [op |-> "CreateTask", id |-> <<>>,
                                               title |-> title, done |-> FALSE]]
               /\ UNCHANGED <<resp, setCount>>
    /\ UNCHANGED <<data, currID, mu, now, mono, strict, id, task, ok, err, list,
                   queried, snap, returned, before>>

\* if err != nil { http.Error(..., http.StatusBadRequest) } else 201 and the task
CreateTaskEncode(p) ==
    /\ pc[p] = "CreateTaskEncode"
    /\ resp' = [resp EXCEPT ![p] =
                  IF err[p] # "nil" THEN [status |-> StatusBadRequest, body |-> err[p]]
                  ELSE [status |-> StatusCreated, body |-> EncodeTask(task[p])]]
    /\ pc' = [pc EXCEPT ![p] = "HandlerRet"]
    /\ UNCHANGED <<data, currID, mu, now, mono, strict, args, id, task, ok, err, list,
                   queried, snap, returned, before, fresh, setCount, req>>

\* GetTask up to the call of h.repo.Get(id)
GetTaskStart(p, k) ==
    /\ pc[p] = "idle"
    /\ req' = [req EXCEPT ![p] = [handler |-> "GetTask", id |-> k, body |-> NoBody,
                                  data |-> data, currID |-> currID]]
    /\ fresh' = [fresh EXCEPT ![p] = ZeroTask]
    /\ IF k = <<>> THEN Reject(p, StatusBadRequest, "Invalid ID")
       ELSE /\ pc' = [pc EXCEPT ![p] = "GetRLock"]
            /\ args' = [args EXCEPT ![p] = [op |-> "GetTask", id |-> k,
                                            title |-> <<>>, done |-> FALSE]]
            /\ UNCHANGED <<resp, setCount>>
    /\ UNCHANGED <<data, currID, mu, now, mono, strict, id, task, ok, err, list,
                   queried, snap, returned, before>>

\* if !ok { http.Error(..., http.StatusNotFound) } else 200 and the task
GetTaskRespond(p) ==
    /\ pc[p] = "GetTaskRespond"
    /\ resp' = [resp EXCEPT ![p] =
                  IF ~ok[p] THEN [status |-> StatusNotFound, body |-> "Task not dound"]
                  ELSE [status |-> StatusOK, body |-> EncodeTask(task[p])]]
    /\ pc' = [pc EXCEPT ![p] = "HandlerRet"]
    /\ UNCHANGED <<data, currID, mu, now, mono, strict, args, id, task, ok, err, list,
                   queried, snap, returned, before, fresh, setCount, req>>

\* EditTasks up to the call of h.repo.SetDone(id, *done)
EditTasksDecode(p, k, body, maxSet) ==
    /\ pc[p] = "idle"
    /\ req' = [req EXCEPT ![p] = [handler |-> "EditTasks", id |-> k, body |-> body,
                                  data |-> data, currID |-> currID]]
    /\ fresh' = [fresh EXCEPT ![p] = ZeroTask]
    /\ LET r == Decode(body) IN
          IF k = <<>> THEN Reject(p, StatusBadRequest, "Invalid ID")
          ELSE IF r.err THEN Reject(p, StatusBadRequest, "Invalid JSON")
          ELSE IF r.DoneNil THEN Reject(p, StatusBadRequest, "Invalid JSON")
          ELSE /\ setCount < maxSet
               /\ setCount' = setCount + 1
               /\ pc' = [pc EXCEPT ![p] = "SetDoneLock"]
               /\ args' = [args EXCEPT ![p] = [op |-> "EditTasks", id |-> k,
                                               title |-> <<>>, done |-> r.Done]]
               /\ UNCHANGED resp
    /\ UNCHANGED <<data, currID, mu, now, mono, strict, id, task, ok, err, list,
                   queried, snap, returned, before>>

\* if err != nil { http.Error(w, err.Error(), http.StatusNotFound) } else 200 and the task
EditTasksRespond(p) ==
    /\ pc[p] = "EditTasksRespond"
    /\ resp' = [resp EXCEPT ![p] =
                  IF err[p] # "nil" THEN [status |-> StatusNotFound, body |-> "task not found"]
                  ELSE [status |-> StatusOK, body |-> EncodeTask(task[p])]]
    /\ pc' = [pc EXCEPT ![p] = "HandlerRet"]
    /\ UNCHANGED <<data, currID, mu, now, mono, strict, args, id, task, ok, err, list,
                   queried, snap, returned, before, fresh, setCount, req>>

\* CreateTask, GetTask or EditTasks returns
HandlerRet(p) ==
    /\ pc[p] = "HandlerRet"
    /\ Forget(p)
    /\ UNCHANGED <<data, currID, mu, now, mono, strict, returned, fresh, setCount>>

(* ---------------- specifications ---------------- *)
CreateStep(p, maxId, titles, clk) ==
    \/ \E title \in titles : CallCreate(p, title, maxId)
    \/ CreateLock(p)
    \/ CreateInc(p)
    \/ CreateNow(p, clk)
    \/ CreatePut(p)
    \/ CreateUnlock(p)
    \/ CreateRet(p)

GetStep(p, maxId) ==
    \/ \E k \in IdArgs(maxId) : CallGet(p, k)
    \/ GetRLock(p)
    \/ GetRead(p)
    \/ GetRUnlock(p)
    \/ GetRet(p)

SetDoneStep(p, maxId, maxSet, clk) ==
    \/ \E k \in IdArgs(maxId), d \in BOOLEAN : CallSetDone(p, k, d, maxSet)
    \/ SetDoneLock(p)
    \/ SetDoneGet(p)
    \/ SetDoneNow(p, clk)
    \/ SetDonePut(p)
    \/ SetDoneUnlock(p)
    \/ SetDoneRet(p)

GetTasksStep(p) ==
    \/ CallGetTasks(p)
    \/ ListRLock(p)
    \/ ListCopy(p)
    \/ ListRUnlock(p)
    \/ ListRet(p)
    \/ GetTasksSort(p)
    \/ GetTasksEncode(p)
    \/ GetTasksRet(p)

\* concurrent callers on one store, any clock
Next ==
    \E p \in Procs :
        \/ CreateStep(p, MaxID, Titles, "any")
        \/ GetStep(p, MaxID)
        \/ SetDoneStep(p, MaxID, MaxSetDone, "any")
        \/ GetTasksStep(p)

Spec == Init /\ [][Next]_vars

\* one caller creating, updating and listing on one store with a clock that
\* never goes back, with enough Create calls for a two-digit id
ListNext ==
    \/ CreateStep(1, ListMaxID, ListTitles, "monotone")
    \/ SetDoneStep(1, ListMaxID, ListMaxSetDone, "monotone")
    \/ GetTasksStep(1)

SpecList == Init /\ [][ListNext]_vars

\* one client of the HTTP handlers on one store with a clock that never goes back
HTTPNext ==
    \/ \E body \in Bodies : CreateTaskDecode(1, body, MaxID)
    \/ CreateTaskEncode(1)
    \/ \E k \in PathIds(MaxID) : GetTaskStart(1, k)
    \/ GetTaskRespond(1)
    \/ \E k \in PathIds(MaxID), body \in Bodies : EditTasksDecode(1, k, body, MaxSetDone)
    \/ EditTasksRespond(1)
    \/ HandlerRet(1)
    \/ CreateLock(1) \/ CreateInc(1) \/ CreateNow(1, "monotone") \/ CreatePut(1)
    \/ CreateUnlock(1) \/ CreateRet(1)
    \/ GetRLock(1) \/ GetRead(1) \/ GetRUnlock(1) \/ GetRet(1)
    \/ SetDoneLock(1) \/ SetDoneGet(1) \/ SetDoneNow(1, "monotone") \/ SetDonePut(1)
    \/ SetDoneUnlock(1) \/ SetDoneRet(1)
    \/ GetTasksStep(1)

SpecHTTP == Init /\ [][HTTPNext]_vars

\* concurrent callers of Create, Get, SetDone and List under a fair scheduler:
\* a goroutine that can take its next step takes it (the Go scheduler runs
\* every runnable goroutine), and a goroutine waiting for the lock gets it
\* if the lock is free again and again (sync.RWMutex hands the lock to
\* waiters: a waiting writer blocks new readers, and sync.Mutex switches to
\* starvation mode for a waiter that keeps losing)
Acquire(p) == CreateLock(p) \/ GetRLock(p) \/ SetDoneLock(p) \/ ListRLock(p)

Proceed(p) ==
    \/ CreateInc(p) \/ CreateNow(p, "monotone") \/ CreatePut(p) \/ CreateUnlock(p) \/ CreateRet(p)
    \/ GetRead(p) \/ GetRUnlock(p) \/ GetRet(p)
    \/ SetDoneGet(p) \/ SetDoneNow(p, "monotone") \/ SetDonePut(p) \/ SetDoneUnlock(p)
    \/ SetDoneRet(p)
    \/ ListCopy(p) \/ ListRUnlock(p) \/ ListRet(p) \/ GetTasksSort(p) \/ GetTasksEncode(p)
    \/ GetTasksRet(p)

LiveNext ==
    \E p \in Procs :
        \/ CreateStep(p, LiveMaxID, ListTitles, "monotone")
        \/ GetStep(p, LiveMaxID)
        \/ SetDoneStep(p, LiveMaxID, LiveMaxSetDone, "monotone")
        \/ GetTasksStep(p)

LiveFairness == \A p \in Procs : WF_vars(Proceed(p)) /\ SF_vars(Acquire(p))

SpecLive == Init /\ [][LiveNext]_vars /\ LiveFairness

(* ---------------- the claims ---------------- *)
\* the call of p has its id: m.currID++ and strconv.Itoa are done
HasID(p) == pc[p] \in {"CreateNow", "CreatePut", "CreateUnlock", "CreateRet"}

\* p is between Lock and Unlock
InWrite(p) == pc[p] \in {"CreateInc", "CreateNow", "CreatePut", "CreateUnlock",
                         "SetDoneGet", "SetDoneNow", "SetDonePut", "SetDoneUnlock"}

\* p is between RLock and RUnlock
InRead(p) == pc[p] \in {"GetRead", "GetRUnlock", "ListCopy", "ListRUnlock"}

\* C1: the id of a Create in progress has not been returned by any Create
\* and is not the id of another Create in progress, so the ids Create
\* returns are pairwise distinct.
C1_UniqueIds ==
    \A p \in Procs :
        HasID(p) =>
            /\ id[p] \notin returned
            /\ \A q \in Procs \ {p} : HasID(q) => id[q] # id[p]

C1_Witness ==
    /\ pc[1] = "CreateRet"
    /\ pc[2] = "CreateRet"

\* C2, as claimed: when a Create is about to return, every id a Create has
\* returned before is numerically smaller than the id it returns.
C2_MonotoneByReturn ==
    \A p \in Procs :
        pc[p] = "CreateRet" =>
            \A a \in returned : Atoi(a).n < Atoi(task[p].ID).n

\* C2, amended: every id a Create had returned before this Create
\* incremented the counter is numerically smaller than this Create's id.
C2_MonotoneByIncrement ==
    \A p \in Procs :
        HasID(p) =>
            \A a \in before[p] : Atoi(a).n < Atoi(id[p]).n

C2_Witness ==
    \E p \in Procs :
        /\ pc[p] = "CreateRet"
        /\ before[p] # {}

\* C3: a goroutine between Lock and Unlock excludes every other goroutine
\* from the critical sections, and what a reader has read while it holds
\* RLock is what the map holds: whole tasks, stored under their own id.
C3_Exclusion ==
    /\ \A p, q \in Procs :
          p # q /\ InWrite(p) => ~InWrite(q) /\ ~InRead(q)
    /\ \A p \in Procs :
          pc[p] = "GetRUnlock" =>
              /\ ok[p] = (args[p].id \in DOMAIN data)
              /\ ok[p] =>
                    /\ task[p] = data[args[p].id]
                    /\ task[p].ID = args[p].id
                    /\ task[p].Title \in Titles
                    /\ task[p].UpdatedAt \in Times
    /\ \A p \in Procs :
          pc[p] = "ListRUnlock" =>
              \A i \in 1 .. Len(list[p]) :
                  /\ list[p][i].ID \in DOMAIN data
                  /\ list[p][i] = data[list[p][i].ID]

C3_Witness ==
    \E p, q \in Procs :
        /\ pc[p] = "SetDonePut"
        /\ pc[q] = "GetRLock"
        /\ args[q].id = args[p].id

\* C4: a SetDone whose id was not in the map when it took the lock reaches
\* its Unlock and its return with ErrNotFound, without having called the
\* clock, and at the Unlock the map and the counter are as they were.
C4_NotFoundNoChange ==
    \A p \in Procs :
        /\ pc[p] \in {"SetDoneUnlock", "SetDoneRet"}
        /\ args[p].id \notin DOMAIN snap[p].data
        => /\ err[p] = "ErrNotFound"
           /\ ~queried[p]
           /\ pc[p] = "SetDoneUnlock" =>
                 /\ data = snap[p].data
                 /\ currID = snap[p].currID

C4_Witness ==
    \E p \in Procs :
        /\ pc[p] = "SetDoneUnlock"
        /\ args[p].id \notin DOMAIN snap[p].data
        /\ snap[p].data # EmptyMap

\* C5: at the Unlock of a SetDone whose id was in the map, the map is the
\* map at the Lock with that task's Done replaced by the argument and its
\* UpdatedAt by the clock value just read; the task returned is the one
\* stored; the counter is unchanged.
C5_SetDoneEffect ==
    \A p \in Procs :
        /\ pc[p] = "SetDoneUnlock"
        /\ args[p].id \in DOMAIN snap[p].data
        => LET k == args[p].id
               old == snap[p].data[k]
           IN /\ queried[p]
              /\ err[p] = "nil"
              /\ currID = snap[p].currID
              /\ DOMAIN data = DOMAIN snap[p].data
              /\ \A x \in DOMAIN data \ {k} : data[x] = snap[p].data[x]
              /\ data[k] = [ID |-> old.ID, Title |-> old.Title,
                            Done |-> args[p].done, UpdatedAt |-> now]
              /\ task[p] = data[k]

C5_Witness ==
    \E p \in Procs :
        /\ pc[p] = "SetDoneUnlock"
        /\ ok[p]
        /\ Cardinality(DOMAIN data) >= 2
        /\ snap[p].data[args[p].id].Done # args[p].done

\* C6: in a step after which the clock has never gone back, no stored
\* task's UpdatedAt decreases; while every clock reading so far was greater
\* than the one before, a successful SetDone returns an UpdatedAt greater
\* than the one the task had, whatever done value is passed.
C6_UpdatedAtAdvances ==
    [][ /\ mono' =>
            \A k \in DOMAIN data :
                k \in DOMAIN data' /\ data'[k].UpdatedAt >= data[k].UpdatedAt
        /\ strict' =>
            \A p \in Procs :
                pc'[p] = "SetDoneUnlock" /\ ok'[p] =>
                    task'[p].UpdatedAt > snap'[p].data[args'[p].id].UpdatedAt
      ]_vars

C6_Witness ==
    \E p \in Procs :
        /\ strict
        /\ pc[p] = "SetDoneUnlock"
        /\ ok[p]
        /\ snap[p].data[args[p].id].Done = args[p].done

\* C7: at the Unlock of a Create the counter is one more than at the Lock,
\* the map is the map at the Lock plus one task under a new key, the decimal
\* string of the counter, with the title passed, Done false and UpdatedAt the
\* clock value just read, and the task returned is that task.
C7_CreateEffect ==
    \A p \in Procs :
        pc[p] = "CreateUnlock" =>
            /\ queried[p]
            /\ currID = snap[p].currID + 1
            /\ id[p] = Itoa(currID)
            /\ id[p] \notin DOMAIN snap[p].data
            /\ DOMAIN data = DOMAIN snap[p].data \cup {id[p]}
            /\ \A x \in DOMAIN snap[p].data : data[x] = snap[p].data[x]
            /\ data[id[p]] = [ID |-> id[p], Title |-> args[p].title,
                              Done |-> FALSE, UpdatedAt |-> now]
            /\ task[p] = data[id[p]]

C7_Witness ==
    \E p \in Procs :
        /\ pc[p] = "CreateUnlock"
        /\ snap[p].data # EmptyMap
        /\ args[p].title = <<"b">>

\* C8: a Get of the id of the task T the goroutine's Create just returned,
\* with no SetDone on that id having stored since T was stored, finds the
\* task and returns T.
C8_ReadYourWrite ==
    \A p \in Procs :
        /\ pc[p] \in {"GetRUnlock", "GetRet"}
        /\ fresh[p] # ZeroTask
        => /\ args[p].id = fresh[p].ID
           /\ ok[p]
           /\ task[p] = fresh[p]

C8_Witness ==
    \E p \in Procs :
        /\ pc[p] = "GetRet"
        /\ fresh[p] # ZeroTask
        /\ Cardinality(DOMAIN data) >= 2

\* C9: GetTasks answers 200 with a body that holds every task of the
\* snapshot List took exactly once, later UpdatedAt first and, among equal
\* UpdatedAt, numerically smaller id first.
C9_ListingOrder ==
    \A p \in Procs :
        pc[p] = "GetTasksRet" =>
            LET b == resp[p].body
                d == snap[p].data
            IN /\ resp[p].status = 200
               /\ Len(b) = Cardinality(DOMAIN d)
               /\ \A k \in DOMAIN d : \E i \in 1 .. Len(b) : b[i] = d[k]
               /\ \A i, j \in 1 .. Len(b) :
                     i < j =>
                         \/ b[i].UpdatedAt > b[j].UpdatedAt
                         \/ /\ b[i].UpdatedAt = b[j].UpdatedAt
                            /\ Atoi(b[i].ID).n < Atoi(b[j].ID).n

C9_Witness ==
    \E p \in Procs :
        /\ pc[p] = "GetTasksRet"
        /\ \E i, j \in 1 .. Len(resp[p].body) :
              /\ 1 < i
              /\ i < j
              /\ resp[p].body[1].UpdatedAt > resp[p].body[i].UpdatedAt
              /\ resp[p].body[i].ID = <<"2">>
              /\ resp[p].body[j].ID = <<"1", "0">>
              /\ resp[p].body[i].UpdatedAt = resp[p].body[j].UpdatedAt

\* C10: the sequence List has built holds exactly the tasks the map held
\* when List copied it, each once, and keeps holding them while later
\* Create and SetDone calls change the map.
C10_ListSnapshot ==
    \A p \in Procs :
        pc[p] \in {"ListRUnlock", "ListRet", "GetTasksSort"} =>
            /\ Len(list[p]) = Cardinality(DOMAIN snap[p].data)
            /\ \A k \in DOMAIN snap[p].data :
                  \E i \in 1 .. Len(list[p]) : list[p][i] = snap[p].data[k]

C10_Witness ==
    \E p \in Procs :
        /\ pc[p] = "GetTasksSort"
        /\ snap[p].data # EmptyMap
        /\ DOMAIN data # DOMAIN snap[p].data
        /\ \E k \in DOMAIN snap[p].data : data[k] # snap[p].data[k]

\* C11: no step of a Get changes the map, the counter or the clock, and
\* when Get has read, ok tells whether the id is the decimal string of a
\* counter value Create has issued, the task is the stored one if so and
\* the zero Task if not.
C11_GetReadOnly ==
    [][ \A p \in Procs :
          /\ /\ pc[p] \in {"idle", "GetRLock", "GetRead", "GetRUnlock", "GetRet"}
             /\ pc'[p] # pc[p]
             /\ pc'[p] \in {"GetRLock", "GetRead", "GetRUnlock", "GetRet", "idle"}
             => /\ data' = data
                /\ currID' = currID
                /\ now' = now
          /\ pc'[p] = "GetRUnlock" =>
                /\ ok'[p] = (args'[p].id \in {Itoa(i) : i \in 1 .. currID'})
                /\ task'[p] = IF ok'[p] THEN data'[args'[p].id] ELSE ZeroTask
      ]_vars

C11_Witness ==
    \E p \in Procs :
        /\ pc[p] = "GetRet"
        /\ ~ok[p]
        /\ data # EmptyMap

\* C12: a step never removes a key from the map and never changes the ID or
\* the Title of a stored task.
C12_NeverDeleted ==
    [][ \A k \in DOMAIN data :
          /\ k \in DOMAIN data'
          /\ data'[k].ID = data[k].ID
          /\ data'[k].Title = data[k].Title
      ]_vars

C12_Witness ==
    \E p \in Procs :
        /\ pc[p] = "SetDoneUnlock"
        /\ ok[p]
        /\ data[args[p].id].Title = <<"b">>
        /\ data[args[p].id].Done
        /\ Cardinality(DOMAIN data) = 2


(* ---------------- C13 ---------------- *)
AllSpaces(str) == \A i \in 1 .. Len(str) : str[i] = " "

\* t is str without its leading and trailing spaces
TrimmedFormOf(t, str) ==
    /\ t # <<>> /\ t[1] # " " /\ t[Len(t)] # " "
    /\ \E i \in 1 .. Len(str) :
          /\ i + Len(t) - 1 <= Len(str)
          /\ SubSeq(str, i, i + Len(t) - 1) = t
          /\ AllSpaces(SubSeq(str, 1, i - 1))
          /\ AllSpaces(SubSeq(str, i + Len(t), Len(str)))

FailsValidation(r) ==
    \/ /\ r.handler = "CreateTask"
       /\ \/ ~r.body.wf
          \/ r.body.title.kind \in {"absent", "null"}
          \/ r.body.title.kind = "string" /\ AllSpaces(r.body.title.s)
    \/ /\ r.handler = "EditTasks"
       /\ \/ ~r.body.wf
          \/ r.body.done.kind \in {"absent", "null"}

\* C13: a POST /tasks with malformed JSON or a title that is empty after
\* trimming, and a PATCH /tasks/{id} with malformed JSON or an absent or null
\* done, is answered with 400, reaches no step of Create or SetDone, asks the
\* clock nothing and leaves the tasks and the identity counter as they were
\* when the request arrived; the title POST stores is the trimmed form of the
\* title of the body.
C13_InvalidNoMutation ==
    \A p \in Procs :
       /\ FailsValidation(req[p]) =>
             /\ pc[p] = "HandlerRet"
             /\ resp[p].status = StatusBadRequest
             /\ data = req[p].data /\ currID = req[p].currID
             /\ ~queried[p]
       /\ pc[p] = "CreateTaskEncode" =>
             /\ task[p].ID \in DOMAIN data
             /\ TrimmedFormOf(data[task[p].ID].Title, req[p].body.title.s)

C13_Witness ==
    \E p \in Procs :
       /\ pc[p] = "HandlerRet" /\ req[p].handler = "EditTasks"
       /\ req[p].body.wf /\ req[p].body.done.kind = "null"
       /\ req[p].id \in DOMAIN data
       /\ data[req[p].id].Title = <<"a", " ", "b">>


(* ---------------- C14 ---------------- *)
\* C14: a POST /tasks body with a member other than title, and a
\* PATCH /tasks/{id} body with a member other than done, is answered with 400
\* and no task is created or updated.
C14_UnknownFieldsRejected ==
    \A p \in Procs :
       \/ req[p].handler = "CreateTask" /\ Members(req[p].body) \ {"title"} # {}
       \/ req[p].handler = "EditTasks" /\ Members(req[p].body) \ {"done"} # {}
       => /\ pc[p] = "HandlerRet"
          /\ resp[p].status = StatusBadRequest
          /\ data = req[p].data /\ currID = req[p].currID


(* ---------------- C15 ---------------- *)
EmptyId(r) == r.handler \in {"GetTask", "EditTasks"} /\ r.id = <<>>

ValidBody(r) ==
    \/ /\ r.handler = "CreateTask" /\ r.body.wf /\ Members(r.body) = {"title"}
       /\ r.body.title.kind = "string" /\ ~AllSpaces(r.body.title.s)
    \/ /\ r.handler = "EditTasks" /\ r.body.wf /\ Members(r.body) = {"done"}
       /\ r.body.done.kind = "bool"
    \/ r.handler = "GetTask"

\* C15: when a handler returns, a request that fails validation (bad JSON,
\* empty title, absent or null done, empty id) has status 400; a GET or a
\* valid PATCH for an id that is not in the store has status 404; a valid
\* POST has 201 and a GET or valid PATCH of a stored id has 200; 404 is
\* never the answer to an invalid request and 400 never the answer to a
\* valid request for a missing task.
C15_StatusCodes ==
    \A p \in Procs : pc[p] = "HandlerRet" =>
       LET r == req[p]
           st == resp[p].status
           missing == r.id \notin DOMAIN r.data
       IN /\ st \in {200, 201, 400, 404}
          /\ FailsValidation(r) \/ EmptyId(r) => st = 400
          /\ ~EmptyId(r) /\ ValidBody(r) /\ r.handler # "CreateTask" /\ missing => st = 404
          /\ ~EmptyId(r) /\ ValidBody(r) /\ r.handler # "CreateTask" /\ ~missing => st = 200
          /\ ValidBody(r) /\ r.handler = "CreateTask" => st = 201
          /\ st = 404 => r.handler # "CreateTask" /\ ~EmptyId(r) /\ missing /\ ~FailsValidation(r)
          /\ st \in {200, 201} => ~FailsValidation(r) /\ ~EmptyId(r)

C15_Witness ==
    \E p \in Procs :
       /\ pc[p] = "HandlerRet" /\ req[p].handler = "EditTasks" /\ ValidBody(req[p])
       /\ req[p].id = <<"2">> /\ DOMAIN data = {<<"1">>}
       /\ resp[p].status = 404


(* ---------------- C16 ---------------- *)
\* C16: every task written to a response by POST /tasks, GET /tasks,
\* GET /tasks/{id} and PATCH /tasks/{id} is an object whose keys are exactly
\* id, title, done and updatedAt.
C16_ResponseKeys ==
    \A p \in Procs :
       /\ pc[p] = "HandlerRet" /\ resp[p].status \in {200, 201} =>
             DOMAIN resp[p].body = {"id", "title", "done", "updatedAt"}
       /\ pc[p] = "GetTasksRet" =>
             \A i \in 1 .. Len(resp[p].body) :
                DOMAIN resp[p].body[i] = {"id", "title", "done", "updatedAt"}


(* ---------------- C17 ---------------- *)
\* C17: over the tasks of the snapshot GetTasks is about to sort, the
\* comparator never panics, no task compares less than itself, for two
\* distinct tasks it never returns 0 and cmp(a, b) = -cmp(b, a), and a < b
\* and b < c imply a < c.
C17_StrictTotalOrder ==
    \A p \in Procs : pc[p] = "GetTasksSort" =>
       LET T == {list[p][i] : i \in 1 .. Len(list[p])}
           r == [a \in T |-> [b \in T |-> cmp(a, b)]]
       IN \A a \in T :
             /\ ~r[a][a].panic /\ ~(r[a][a].c < 0)
             /\ \A b \in T :
                   /\ ~r[a][b].panic
                   /\ a # b => r[a][b].c # 0 /\ r[a][b].c = -r[b][a].c
                   /\ \A c \in T : r[a][b].c < 0 /\ r[b][c].c < 0 => r[a][c].c < 0

C17_Witness ==
    \E p \in Procs :
       /\ pc[p] = "GetTasksSort" /\ Len(list[p]) >= 3
       /\ \E i, j, k \in 1 .. Len(list[p]) :
             /\ i # j
             /\ list[p][i].UpdatedAt = list[p][j].UpdatedAt
             /\ list[p][k].UpdatedAt # list[p][i].UpdatedAt


(* ---------------- C18 ---------------- *)
\* C18: no store operation calls an external collaborator while it holds the
\* store's lock: a step in which a goroutine calls m.clock.Now() starts in a
\* state where that goroutine holds neither the write lock nor a read lock.
C18_NoExternalCallUnderLock ==
    [][ \A p \in Procs :
          queried'[p] /\ ~queried[p] => mu.w # p /\ p \notin mu.r ]_vars


(* ---------------- C19 ---------------- *)
\* C19: under fair scheduling every invoked Create, Get, SetDone and List
\* returns; an operation that has returned holds no lock, on SetDone's
\* NotFound path too; and in no reachable state with an operation in flight
\* are all of them unable to take a step.
C19_Terminates ==
    /\ \A p \in Procs : [](pc[p] # "idle" => <>(pc[p] = "idle"))
    /\ [](\A p \in Procs : pc[p] = "idle" => mu.w # p /\ p \notin mu.r)
    /\ []((\E p \in Procs : pc[p] # "idle") =>
             \E p \in Procs : ENABLED (Proceed(p) \/ Acquire(p)))

C19_Witness ==
    /\ pc[1] = "SetDoneLock"
    /\ pc[2] = "SetDoneUnlock" /\ err[2] = "ErrNotFound" /\ mu.w = 2


(* ---------------- C20 ---------------- *)
\* C20: every key of the map is a decimal numeral without a leading zero
\* whose value lies in 1 .. currID, a task is stored under its own ID, and
\* the values of the keys are exactly 1 .. currID, less the id of a Create
\* that has incremented the counter and not yet stored its task; so whenever
\* no Create is at that point the keys are the decimal strings of
\* 1 .. currID and the number of tasks is currID. The comparator then parses
\* every id: SortFunc does not panic on any snapshot and GetTasks always
\* answers 200.
C20_WellFormedIds ==
    LET inflight == {q \in Procs : pc[q] \in {"CreateNow", "CreatePut"}}
        nums == {Atoi(k).n : k \in DOMAIN data}
    IN /\ \A k \in DOMAIN data :
             /\ ~Atoi(k).err /\ k[1] # "0"
             /\ Atoi(k).n \in 1 .. currID
             /\ data[k].ID = k
       /\ Cardinality(DOMAIN data) = Cardinality(nums)
       /\ nums = (1 .. currID) \ {Atoi(id[q]).n : q \in inflight}
       /\ inflight = {} => Cardinality(DOMAIN data) = currID
       /\ \A p \in Procs :
             /\ pc[p] = "GetTasksSort" => ~SortFunc(list[p]).panic
             /\ pc[p] = "GetTasksRet" => resp[p].status = 200

C20_Witness ==
    \E p \in Procs :
       /\ pc[p] = "GetTasksSort" /\ Len(list[p]) = 10 /\ currID = 10
       /\ <<"1", "0">> \in DOMAIN data

====
